---- MODULE Spec2Model ----
(***************************************************************************)
(* The browser client of the conversational voice agent.                   *)
(*                                                                         *)
(* The repository holds two versions of the page script:                   *)
(*   src/files/script.js   (page = "script")                               *)
(*   src/unnamed/part_000  (page = "part")                                 *)
(* Both are modelled; Init chooses which one the tab has loaded.  The      *)
(* configuration (toggles, saved keys) and the turn channel (WebSocket to  *)
(* /ws/transcribe) exist in script.js only.                                *)
(*                                                                         *)
(* The browser runs one handler at a time.  A handler is suspended at its  *)
(* awaits (getUserMedia, fetch, aiAudio.play) and other handlers run in    *)
(* between; every action below is one handler run from one suspension to   *)
(* the next.  Texts are written in ASCII: "..." for the ellipsis, "-" for  *)
(* the dash, "Warning: " for the warning sign of part_000's error toast;   *)
(* the microphone emoji of its other texts is left out.                    *)
(***************************************************************************)
EXTENDS Naturals, Integers, Sequences, FiniteSets, TLC

\* ---------------------------------------------------------------- bounds
\* start gestures (clicks that call startRecording) followed in one run
MaxGestures == 2
\* auto-resumes (startRecording called by aiAudio.onended) followed in one run
MaxResumes == 1
\* rows appended to turnLog in one run
MaxRows == 2
\* startRecording() calls followed while the messages of the channel arrive
MaxStarts == 2
\* calls of ensureSessionId followed in one tab
MaxCalls == 3
\* milliseconds of Date.now() that pass in one run
MaxClock == 3

\* ------------------------------------------------------------- constants
NoVal == "undefined"
Fallback == "/static/fallback.mp3"
ReplyUrl == "https://x/reply.mp3"
TroubleMsg == "I'm having trouble connecting right now. Please try again."
NoResponse == "(no response)"
Pages == {"script", "part"}

VARIABLES
    page,          \* which script the tab has loaded
    isRecording,   \* let isRecording
    mediaRecorder, \* let mediaRecorder: 0 is undefined, else the recorder's number
    recorders,     \* the MediaRecorder objects created so far
    chunks,        \* let chunks / audioChunks: owning recorder of each fragment
    pendingGUM,    \* startRecording() calls suspended at await getUserMedia
    gestures,      \* startRecording() calls made by a click so far
    resumes,       \* startRecording() calls made by aiAudio.onended so far
    inflight,      \* fetch() calls sent and not yet settled
    sent,          \* fetch() calls made so far
    audioSrc,      \* aiAudio.src
    playing,       \* aiAudio is playing
    onended,       \* aiAudio.onended is the auto-listen handler
    playPending,   \* the handler suspended at await aiAudio.play(), if any
    statusText,    \* statusText.textContent
    toast,         \* toast.textContent
    lastBot,       \* text of the last assistant bubble in chatWindow
    search,        \* window.location.search
    now,           \* Date.now()
    keys,          \* what the calls of ensureSessionId returned, in order
    sessionIdText, \* sessionIdText.textContent
    conciseToggle, \* the conciseToggle checkbox: "absent", "off" or "on"
    webToggle,     \* the webToggle checkbox: "absent", "off" or "on"
    localStorage,  \* localStorage items key_<provider>: NoVal is null
    loaded,        \* DOMContentLoaded has been dispatched
    sockets,       \* the WebSocket objects created so far
    turnSocket,    \* let turnSocket: 0 is undefined, else the socket's number
    turnLog,       \* textContent of the rows of turnLog, in order
    turnBoxHidden  \* turnBox carries the class hidden

recVars   == <<isRecording, mediaRecorder, recorders, chunks>>
gumVars   == <<pendingGUM, gestures, resumes>>
netVars   == <<inflight, sent>>
audioVars == <<audioSrc, playing, onended, playPending>>
uiVars    == <<statusText, toast, lastBot>>
loopVars  == <<page, recVars, gumVars, netVars, audioVars, uiVars>>
sessVars  == <<search, now, keys, sessionIdText>>
formVars  == <<conciseToggle, webToggle, localStorage>>
chanVars  == <<loaded, sockets, turnSocket, turnLog, turnBoxHidden>>
envVars   == <<sessVars, formVars, chanVars>>
vars      == <<loopVars, envVars>>

\* a || b of JavaScript for strings: undefined and "" are falsy
Or(a, b) == IF a = NoVal \/ a = "" THEN b ELSE a

\* ------------------------------------------------------------ responses
\* What a fetch() can settle to.  net = "reject": fetch rejects (transport).
\* net = "ok" / "status": a response with an OK / non-OK status; parsed says
\* whether res.json() yields an object.
StatusLine == "500 Internal Server Error"
ErrorText  == "quota exceeded"
Stage      == "synthesize"
Detail     == "bad request"
ReplyText  == "hi there"

Resp(net, parsed, error, stage, detail, llm, url, fb) ==
    [net |-> net, parsed |-> parsed, error |-> error, stage |-> stage,
     detail |-> detail, llm_text |-> llm, audio_url |-> url, fallback |-> fb]

\* the error bodies: one for each field fetchJson can take its message from,
\* and one with none of them
ErrorBodies ==
    {Resp("status", TRUE, ErrorText, Stage, NoVal, NoVal, NoVal, FALSE),
     Resp("status", TRUE, NoVal, Stage, Detail, NoVal, NoVal, FALSE),
     Resp("status", TRUE, NoVal, NoVal, Detail, NoVal, NoVal, FALSE),
     Resp("status", TRUE, NoVal, NoVal, NoVal, NoVal, NoVal, FALSE)}

\* the success bodies: a reply with its audio, a reply whose audio the server
\* replaced, a reply without audio, and an empty object
SuccessBodies ==
    {Resp("ok", TRUE, NoVal, NoVal, NoVal, ReplyText, ReplyUrl, FALSE),
     Resp("ok", TRUE, NoVal, NoVal, NoVal, ReplyText, ReplyUrl, TRUE),
     Resp("ok", TRUE, NoVal, NoVal, NoVal, ReplyText, NoVal, TRUE),
     Resp("ok", TRUE, NoVal, NoVal, NoVal, NoVal, NoVal, FALSE)}

Responses ==
    {Resp("reject", FALSE, NoVal, NoVal, NoVal, NoVal, NoVal, FALSE)}
    \cup {Resp(n, FALSE, NoVal, NoVal, NoVal, NoVal, NoVal, FALSE) : n \in {"ok", "status"}}
    \cup ErrorBodies
    \cup SuccessBodies

\* ------------------------------------------------------------- recorder
\* new MediaRecorder(stream) on the stream getUserMedia resolved with: the
\* tracks of a stream are "live" until something stops them
NewRecorder(evs) == [state |-> "recording", events |-> evs, stream |-> "live"]

\* MediaRecorder.stop(): the state is inactive at once, the dataavailable and
\* stop events are dispatched later, in one task
RecStop(r) == [recorders EXCEPT ![r].state = "inactive",
                                ![r].events = @ \o <<"stop">>]

\* ------------------------------------------------------ session handling
\* first position of the character c in s, 0 when there is none
IndexOf(s, c) ==
    IF \E i \in 1..Len(s) : SubSeq(s, i, i) = c
    THEN CHOOSE i \in 1..Len(s) :
            SubSeq(s, i, i) = c /\ \A j \in 1..(i - 1) : SubSeq(s, j, j) # c
    ELSE 0

RECURSIVE Split(_, _)
Split(s, c) ==
    LET i == IndexOf(s, c)
    IN  IF i = 0 THEN <<s>>
        ELSE <<SubSeq(s, 1, i - 1)>> \o Split(SubSeq(s, i + 1, Len(s)), c)

\* application/x-www-form-urlencoded, as URLSearchParams reads and writes it
Escapes == {<<" ", "%20">>, <<"+", "%2B">>, <<"%", "%25">>}

RECURSIVE Decode(_)
Decode(s) ==
    IF s = "" THEN ""
    ELSE IF SubSeq(s, 1, 1) = "+" THEN " " \o Decode(SubSeq(s, 2, Len(s)))
    ELSE IF Len(s) >= 3 /\ \E e \in Escapes : e[2] = SubSeq(s, 1, 3)
         THEN (CHOOSE e \in Escapes : e[2] = SubSeq(s, 1, 3))[1]
                 \o Decode(SubSeq(s, 4, Len(s)))
    ELSE SubSeq(s, 1, 1) \o Decode(SubSeq(s, 2, Len(s)))

RECURSIVE Encode(_)
Encode(s) ==
    IF s = "" THEN ""
    ELSE LET c == SubSeq(s, 1, 1)
             rest == Encode(SubSeq(s, 2, Len(s)))
         IN  IF c = " " THEN "+" \o rest
             ELSE IF \E e \in Escapes : e[1] = c
                  THEN (CHOOSE e \in Escapes : e[1] = c)[2] \o rest
                  ELSE c \o rest

ParsePair(piece) ==
    LET i == IndexOf(piece, "=")
    IN  IF i = 0 THEN [name |-> Decode(piece), value |-> ""]
        ELSE [name  |-> Decode(SubSeq(piece, 1, i - 1)),
              value |-> Decode(SubSeq(piece, i + 1, Len(piece)))]

\* new URLSearchParams(window.location.search)
URLSearchParams(query) ==
    LET body == IF Len(query) >= 1 /\ SubSeq(query, 1, 1) = "?"
                THEN SubSeq(query, 2, Len(query)) ELSE query
        pieces == SelectSeq(Split(body, "&"), LAMBDA piece : piece # "")
    IN  [i \in 1..Len(pieces) |-> ParsePair(pieces[i])]

Has(params, name) == \E i \in 1..Len(params) : params[i].name = name
First(params, name) ==
    CHOOSE i \in 1..Len(params) :
        params[i].name = name /\ \A j \in 1..(i - 1) : params[j].name # name

\* params.get(name): null when there is no such parameter
ParamsGet(params, name) ==
    IF Has(params, name)
    THEN [null |-> FALSE, value |-> params[First(params, name)].value]
    ELSE [null |-> TRUE, value |-> ""]

\* ParamsSet with the bug of a key that is made up and not written back
ParamsSetLost(params, name, value) == params

\* params.set(name, value): the first such parameter takes the value and the
\* others are removed; appended when there is none
ParamsSet(params, name, value) ==
    IF Has(params, name)
    THEN LET f == First(params, name)
             kept == {i \in 1..Len(params) : i <= f \/ params[i].name # name}
             Nth(k) == CHOOSE i \in kept : Cardinality({j \in kept : j <= i}) = k
         IN  [k \in 1..Cardinality(kept) |->
                 IF Nth(k) = f THEN [name |-> name, value |-> value]
                               ELSE params[Nth(k)]]
    ELSE Append(params, [name |-> name, value |-> value])

\* params.toString()
RECURSIVE ParamsToString(_)
ParamsToString(params) ==
    IF params = <<>> THEN ""
    ELSE Encode(params[1].name) \o "=" \o Encode(params[1].value)
            \o (IF Len(params) > 1 THEN "&" ELSE "")
            \o ParamsToString(Tail(params))

\* the queries a tab is opened with
Queries ==
    {"", "?", "?session_id", "?session_id=", "?session_id=s1",
     "?session_id=a+b", "?session_id=a%20b", "?session_id=a%2Bb",
     "?lang=en", "?q=a+b", "?lang=en&session_id=s1", "?session_id=&lang=en",
     "?session_id=s1&session_id=s2", "?session_id=&q=a%20b&session_id=s2"}

\* the session of the loaded page
LoadedKey == "s1"

\* ensureSessionId() of script.js; the function called at load by part_000
\* is the same up to the element text, which it sets right after
ensureSessionId ==
    LET params == URLSearchParams(search)
        got    == ParamsGet(params, "session_id")
        absent == got.null \/ got.value = ""
        id     == IF absent THEN ToString(now) ELSE got.value
    IN  /\ Len(keys) < MaxCalls
        /\ search' = IF absent
                     THEN "?" \o ParamsToString(ParamsSet(params, "session_id", id))
                     ELSE search
        /\ sessionIdText' = id
        /\ keys' = Append(keys, id)
        /\ UNCHANGED <<now, loopVars, formVars, chanVars>>

\* time passes
Tick ==
    /\ now < MaxClock
    /\ now' = now + 1
    /\ UNCHANGED <<search, keys, sessionIdText, loopVars, formVars, chanVars>>

\* ------------------------------------------------------------- Init
LoopInit ==
    /\ page \in Pages
    /\ isRecording = FALSE
    /\ mediaRecorder = 0
    /\ recorders = <<>>
    /\ chunks = <<>>
    /\ pendingGUM = 0
    /\ gestures = 0
    /\ resumes = 0
    /\ inflight = {}
    /\ sent = 0
    /\ audioSrc = NoVal
    /\ playing = FALSE
    /\ onended = FALSE
    /\ playPending = <<>>
    /\ statusText = NoVal
    /\ toast = NoVal
    /\ lastBot = NoVal

\* the configuration of a fresh tab: the toggles are off by default and no
\* key has been saved
Providers == {"assemblyai", "gemini", "murf", "tavily"}
FormInit ==
    /\ conciseToggle = "off"
    /\ webToggle = "off"
    /\ localStorage = [p \in Providers |-> NoVal]

\* the document is still loading: the DOMContentLoaded listeners have not run
ChanInit ==
    /\ loaded = FALSE
    /\ sockets = <<>>
    /\ turnSocket = 0
    /\ turnLog = <<>>
    /\ turnBoxHidden = TRUE

\* the page has loaded: const sessionId = ensureSessionId() has run
Init ==
    /\ LoopInit
    /\ FormInit
    /\ ChanInit
    /\ search = "?session_id=" \o LoadedKey
    /\ now = 0
    /\ keys = <<LoadedKey>>
    /\ sessionIdText = LoadedKey

\* the tab before the script runs
InitSession ==
    /\ LoopInit
    /\ FormInit
    /\ ChanInit
    /\ search \in Queries
    /\ now = 0
    /\ keys = <<>>
    /\ sessionIdText = ""

\* ------------------------------------------------------- startRecording
\* startRecording() up to its await: the microphone is requested
startRecording ==
    pendingGUM' = pendingGUM + 1

\* getUserMedia resolves: the rest of the try block
GetUserMediaResolve ==
    /\ pendingGUM > 0
    /\ pendingGUM' = pendingGUM - 1
    /\ mediaRecorder' = Len(recorders) + 1
    /\ chunks' = <<>>
    /\ IF page = "script"
       THEN /\ recorders' = Append(recorders, NewRecorder(<<>>))
            /\ isRecording' = TRUE
            /\ statusText' = "Listening... tap to stop"
            /\ toast' = "Recording started"
       ELSE /\ recorders' = Append(recorders, NewRecorder(<<"start">>))
            /\ UNCHANGED <<isRecording, statusText, toast>>
    /\ UNCHANGED <<page, gestures, resumes, netVars, audioVars, lastBot, envVars>>

\* GetUserMediaReject with the bug of a recording flag raised before the
\* microphone is granted and not lowered in the catch block
GetUserMediaRejectFlagUp ==
    /\ pendingGUM > 0
    /\ pendingGUM' = pendingGUM - 1
    /\ isRecording' = TRUE
    /\ toast' = "Microphone permission required"
    /\ UNCHANGED <<page, mediaRecorder, recorders, chunks, gestures, resumes,
                   netVars, audioVars, statusText, lastBot, envVars>>

\* getUserMedia rejects (permission denied, no device): the catch block
GetUserMediaReject ==
    /\ pendingGUM > 0
    /\ pendingGUM' = pendingGUM - 1
    /\ IF page = "script"
       THEN /\ toast' = "Mic error: " \o "Permission denied"
            /\ UNCHANGED statusText
       ELSE /\ toast' = "Microphone permission required"
            /\ statusText' = "Mic blocked - allow and retry"
    /\ UNCHANGED <<page, recVars, gestures, resumes, netVars, audioVars, lastBot, envVars>>

\* -------------------------------------------------------- stopRecording
\* stopRecording with the bug of a missing guard: the recorder is stopped
\* whenever there is one
stopRecordingUnguarded ==
    IF mediaRecorder # 0
    THEN /\ recorders' = RecStop(mediaRecorder)
         /\ IF page = "script"
            THEN /\ isRecording' = FALSE
                 /\ statusText' = "Thinking..."
                 /\ toast' = "Recording stopped"
            ELSE UNCHANGED <<isRecording, statusText, toast>>
    ELSE UNCHANGED <<recorders, isRecording, statusText, toast>>

stopRecording ==
    IF page = "script"
    THEN IF mediaRecorder # 0 /\ isRecording
         THEN /\ recorders' = RecStop(mediaRecorder)
              /\ isRecording' = FALSE
              /\ statusText' = "Thinking..."
              /\ toast' = "Recording stopped"
         ELSE UNCHANGED <<recorders, isRecording, statusText, toast>>
    ELSE /\ IF mediaRecorder # 0 /\ recorders[mediaRecorder].state # "inactive"
            THEN recorders' = RecStop(mediaRecorder)
            ELSE UNCHANGED recorders
         /\ UNCHANGED <<isRecording, statusText, toast>>

\* stopRecording() called by something other than the click handler
StopCall ==
    /\ stopRecording
    /\ UNCHANGED <<page, mediaRecorder, chunks, gumVars, netVars, audioVars, lastBot, envVars>>

\* recordBtn click (the keydown handler clicks the button)
Click ==
    /\ IF isRecording
       THEN stopRecording /\ UNCHANGED gumVars
       ELSE /\ gestures < MaxGestures
            /\ gestures' = gestures + 1
            /\ startRecording
            /\ UNCHANGED <<resumes, recorders, isRecording, statusText, toast>>
    /\ UNCHANGED <<page, mediaRecorder, chunks, netVars, audioVars, lastBot, envVars>>

\* mediaRecorder.onstart of part_000
RecorderStart(r) ==
    /\ r \in 1..Len(recorders)
    /\ recorders[r].events # <<>>
    /\ Head(recorders[r].events) = "start"
    /\ recorders' = [recorders EXCEPT ![r].events = Tail(@)]
    /\ isRecording' = TRUE
    /\ statusText' = "Listening... tap to stop"
    /\ UNCHANGED <<page, mediaRecorder, chunks, gumVars, netVars, audioVars, toast, lastBot, envVars>>

\* ondataavailable: a fragment of recorder r with data is pushed
Push(r, hasData) == IF hasData THEN Append(chunks, r) ELSE chunks

\* the entries of the FormData that onstop (script.js) and sendToAgent
\* (part_000) post; the value of the file entry is its file name, the blob
\* itself is the blob of the request
Entry(name, value) == [name |-> name, value |-> value]
Checked(toggle) == IF toggle = "on" THEN "1" ELSE "0"
GetItem(p) == Or(localStorage[p], "")
KeyEntry(p) ==
    IF GetItem(p) # "" THEN <<Entry(p \o "_api_key", GetItem(p))>> ELSE <<>>
FormData ==
    IF page = "script"
    THEN <<Entry("file", "rec_" \o ToString(now) \o ".webm"),
           Entry("concise", Checked(conciseToggle)),
           Entry("web_search", Checked(webToggle))>>
            \o KeyEntry("assemblyai") \o KeyEntry("gemini")
            \o KeyEntry("murf") \o KeyEntry("tavily")
    ELSE <<Entry("file", "turn_" \o ToString(now) \o ".webm")>>

\* RecorderStop with the bug of a blob built when stop() is called: the
\* request is posted without the fragment of the last dataavailable event
RecorderStopSendsEarly(r, hasData) ==
    /\ r \in 1..Len(recorders)
    /\ recorders[r].events # <<>>
    /\ Head(recorders[r].events) = "stop"
    /\ recorders' = [recorders EXCEPT ![r].events = Tail(@)]
    /\ chunks' = Push(r, hasData)
    /\ sent' = sent + 1
    /\ inflight' = inflight \cup {[id |-> sent + 1, blob |-> chunks, form |-> FormData]}
    /\ IF page = "script"
       THEN UNCHANGED <<isRecording, statusText>>
       ELSE /\ isRecording' = FALSE
            /\ statusText' = "Thinking..."
    /\ UNCHANGED <<page, mediaRecorder, gumVars, audioVars, toast, lastBot, envVars>>

\* the task that ends recorder r: ondataavailable, then onstop up to its
\* await fetch
RecorderStop(r, hasData) ==
    /\ r \in 1..Len(recorders)
    /\ recorders[r].events # <<>>
    /\ Head(recorders[r].events) = "stop"
    /\ recorders' = [recorders EXCEPT ![r].events = Tail(@)]
    /\ chunks' = Push(r, hasData)
    /\ sent' = sent + 1
    /\ inflight' = inflight \cup {[id |-> sent + 1, blob |-> Push(r, hasData),
                                   form |-> FormData]}
    /\ IF page = "script"
       THEN UNCHANGED <<isRecording, statusText>>
       ELSE /\ isRecording' = FALSE
            /\ statusText' = "Thinking..."
    /\ UNCHANGED <<page, mediaRecorder, gumVars, audioVars, toast, lastBot, envVars>>

\* ------------------------------------------------------------ exchange
\* script.js: the try block of onstop after await fetch runs to its end
\* only for an OK status whose body parses
ScriptOk(resp) == resp.net = "ok" /\ resp.parsed

\* PartOk with the bug of a fallback flag taken for a failure
PartOkNoFallback(resp) == resp.net = "ok" /\ ~resp.fallback

\* part_000 fetchJson: data is null when the body does not parse; a non-OK
\* status throws, an OK status returns data || {}
PartOk(resp) == resp.net = "ok"

\* part_000 fetchJson: the message of the Error it throws (fetch itself
\* rejects with the browser's TypeError)
FetchJsonMessage(resp) ==
    IF resp.net = "reject" THEN "Failed to fetch"
    ELSE IF resp.parsed
         THEN Or(Or(Or(resp.error, resp.stage), resp.detail), StatusLine)
         ELSE StatusLine

\* Cont with the bug of a success path that never installs aiAudio.onended
ContNeverArms(arm, status) == [arm |-> FALSE, status |-> status]

\* the handler suspended at await aiAudio.play(): what it does afterwards
Cont(arm, status) == [arm |-> arm, status |-> status]

\* aiAudio.src = ...; aiAudio.play(): the element drops what it was playing
\* and the play() promise still pending is rejected, so the handler that
\* awaited it resumes (its catch {} swallows the rejection)
OldArm == playPending # <<>> /\ playPending[1].arm
OldStatus(cur) ==
    IF playPending # <<>> /\ playPending[1].status # NoVal
    THEN playPending[1].status ELSE cur

SetSrcAndPlay(src, cont) ==
    /\ audioSrc' = src
    /\ playing' = FALSE
    /\ playPending' = <<cont>>
    /\ onended' = (onended \/ OldArm)
    /\ statusText' = OldStatus(statusText)

\* FetchSettle with the bug of a retry: a request that ends with a transport
\* error, a non-OK status or an unparsable body is posted again
FetchSettleRetries(q, resp) ==
    /\ q \in inflight
    /\ IF resp.net # "ok" \/ ~resp.parsed
       THEN /\ sent' = sent + 1
            /\ inflight' = (inflight \ {q}) \cup {[q EXCEPT !.id = sent + 1]}
            /\ UNCHANGED <<audioVars, uiVars>>
       ELSE /\ inflight' = inflight \ {q}
            /\ lastBot' = Or(resp.llm_text, NoResponse)
            /\ SetSrcAndPlay(Or(resp.audio_url, Fallback),
                   Cont(TRUE, IF page = "script" THEN NoVal
                              ELSE IF resp.fallback THEN "Speaking (fallback)..."
                                                    ELSE "Speaking..."))
            /\ UNCHANGED <<toast, sent>>
    /\ UNCHANGED <<page, recVars, gumVars, envVars>>

\* the fetch of request q settles with resp
FetchSettle(q, resp) ==
    /\ q \in inflight
    /\ inflight' = inflight \ {q}
    /\ IF page = "script"
       THEN /\ IF ScriptOk(resp)
               THEN /\ lastBot' = Or(resp.llm_text, NoResponse)
                    /\ SetSrcAndPlay(Or(resp.audio_url, Fallback), Cont(TRUE, NoVal))
               ELSE /\ lastBot' = TroubleMsg
                    /\ SetSrcAndPlay(Fallback, Cont(FALSE, NoVal))
            /\ UNCHANGED toast
       ELSE IF PartOk(resp)
            THEN /\ lastBot' = Or(resp.llm_text, NoResponse)
                 /\ SetSrcAndPlay(Or(resp.audio_url, Fallback),
                        Cont(TRUE, IF resp.fallback THEN "Speaking (fallback)..."
                                                    ELSE "Speaking..."))
                 /\ UNCHANGED toast
            ELSE /\ statusText' = "Error - tap to try again"
                 /\ toast' = "Warning: " \o FetchJsonMessage(resp)
                 /\ UNCHANGED <<audioVars, lastBot>>
    /\ UNCHANGED <<page, recVars, gumVars, sent, envVars>>

\* the play() promise settles: playback begins, or the promise is rejected
\* (autoplay blocked, source cannot be loaded); the handler resumes
PlaySettle(ok) ==
    /\ playPending # <<>>
    /\ playPending' = <<>>
    /\ playing' = ok
    /\ onended' = (onended \/ playPending[1].arm)
    /\ statusText' = OldStatus(statusText)
    /\ UNCHANGED <<page, recVars, gumVars, netVars, audioSrc, toast, lastBot, envVars>>

\* the ended event of aiAudio
AudioEnded ==
    /\ playing
    /\ playing' = FALSE
    /\ IF onended
       THEN /\ resumes < MaxResumes
            /\ resumes' = resumes + 1
            /\ startRecording
            /\ UNCHANGED gestures
            /\ statusText' = IF page = "part" THEN "Tap to start recording"
                                              ELSE statusText
       ELSE UNCHANGED <<gumVars, statusText>>
    /\ UNCHANGED <<page, recVars, netVars, audioSrc, onended, playPending, toast, lastBot, envVars>>

\* -------------------------------------------------------- configuration
\* String.prototype.trim() for the space character
RECURSIVE Trim(_)
Trim(s) ==
    IF s = "" THEN ""
    ELSE IF SubSeq(s, 1, 1) = " " THEN Trim(SubSeq(s, 2, Len(s)))
    ELSE IF SubSeq(s, Len(s), Len(s)) = " " THEN Trim(SubSeq(s, 1, Len(s) - 1))
    ELSE s

\* what the user may have typed into the key field of provider p
Typed(p) == {"", " ", " sk-" \o p \o " "}

\* the user ticks or unticks the conciseToggle checkbox
ToggleConcise ==
    /\ conciseToggle # "absent"
    /\ conciseToggle' = IF conciseToggle = "on" THEN "off" ELSE "on"
    /\ UNCHANGED <<loopVars, sessVars, webToggle, localStorage, chanVars>>

\* the user ticks or unticks the webToggle checkbox
ToggleWeb ==
    /\ webToggle # "absent"
    /\ webToggle' = IF webToggle = "on" THEN "off" ELSE "on"
    /\ UNCHANGED <<loopVars, sessVars, conciseToggle, localStorage, chanVars>>

\* saveConfig click of script.js with the values fields of the key fields
SaveConfig(fields) ==
    /\ page = "script"
    /\ localStorage' = [p \in Providers |-> Trim(fields[p])]
    /\ toast' = "Saved API keys"
    /\ UNCHANGED <<page, recVars, gumVars, netVars, audioVars, statusText, lastBot,
                   sessVars, conciseToggle, webToggle, chanVars>>

\* --------------------------------------------------------- turn channel
\* encodeURIComponent(s)
RECURSIVE EncodeURIComponent(_)
EncodeURIComponent(s) ==
    IF s = "" THEN ""
    ELSE LET c == SubSeq(s, 1, 1)
             rest == EncodeURIComponent(SubSeq(s, 2, Len(s)))
         IN  IF \E e \in Escapes : e[1] = c
             THEN (CHOOSE e \in Escapes : e[1] = c)[2] \o rest
             ELSE c \o rest

\* new WebSocket(url) for the session of the tab
NewSocket ==
    [state |-> "connecting",
     url |-> "ws://host/ws/transcribe?session_id=" \o EncodeURIComponent(keys[1])]

\* initTurnSocket(): one more socket; turnSocket refers to the last one
initTurnSocket(socks) == Append(socks, NewSocket)

\* DOMContentLoaded with the bug of a listener list that keeps both
\* registrations of initTurnSocket
DOMContentLoadedTwice ==
    /\ ~loaded
    /\ keys # <<>>
    /\ loaded' = TRUE
    /\ IF page = "script"
       THEN /\ sessionIdText' = IF sessionIdText = "" THEN keys[1] ELSE sessionIdText
            /\ sockets' = initTurnSocket(initTurnSocket(sockets))
            /\ turnSocket' = Len(sockets')
       ELSE UNCHANGED <<sessionIdText, sockets, turnSocket>>
    /\ UNCHANGED <<loopVars, search, now, keys, formVars, turnLog, turnBoxHidden>>

\* the DOMContentLoaded event, dispatched once after the script has run.
\* script.js calls addEventListener three times: the listener that fills
\* sessionIdText (line 140) and initTurnSocket at lines 195 and 200; the
\* second registration of the same function is discarded by the document,
\* so initTurnSocket runs once.  part_000 adds no listener.
DOMContentLoaded ==
    /\ ~loaded
    /\ keys # <<>>
    /\ loaded' = TRUE
    /\ IF page = "script"
       THEN /\ sessionIdText' = IF sessionIdText = "" THEN keys[1] ELSE sessionIdText
            /\ sockets' = initTurnSocket(sockets)
            /\ turnSocket' = Len(sockets')
       ELSE UNCHANGED <<sessionIdText, sockets, turnSocket>>
    /\ UNCHANGED <<loopVars, search, now, keys, formVars, turnLog, turnBoxHidden>>

\* turnSocket.onopen: a log line
SocketOpen(ws) ==
    /\ ws \in 1..Len(sockets)
    /\ sockets[ws].state = "connecting"
    /\ sockets' = [sockets EXCEPT ![ws].state = "open"]
    /\ UNCHANGED <<loopVars, sessVars, formVars, loaded, turnSocket, turnLog, turnBoxHidden>>

\* the texts the server may send on the channel
Frames ==
    {"hello", "null",
     "{\"type\":\"partial\",\"transcript\":\"hi\"}",
     "{\"type\":\"turn\",\"end_of_turn\":false,\"transcript\":\"hi\"}",
     "{\"type\":\"turn\",\"end_of_turn\":true,\"transcript\":\"hi\"}",
     "{\"type\":\"turn\",\"end_of_turn\":true}",
     "{\"type\":\"transcript\",\"end_of_turn\":true,\"transcript\":\"hi\"}",
     "{\"type\":\"turn\",\"transcript\":\"hi\"}"}

\* JSON.parse(evt.data) on Frames: ok is false when it throws, object is
\* false for null; a field that is missing reads as undefined (falsy)
Json(ok, object, type, eot, transcript) ==
    [ok |-> ok, object |-> object, type |-> type, end_of_turn |-> eot,
     transcript |-> transcript]
JSONParse(data) ==
    CASE data = "null" -> Json(TRUE, FALSE, NoVal, FALSE, NoVal)
      [] data = "{\"type\":\"partial\",\"transcript\":\"hi\"}"
            -> Json(TRUE, TRUE, "partial", FALSE, "hi")
      [] data = "{\"type\":\"turn\",\"end_of_turn\":false,\"transcript\":\"hi\"}"
            -> Json(TRUE, TRUE, "turn", FALSE, "hi")
      [] data = "{\"type\":\"turn\",\"end_of_turn\":true,\"transcript\":\"hi\"}"
            -> Json(TRUE, TRUE, "turn", TRUE, "hi")
      [] data = "{\"type\":\"turn\",\"end_of_turn\":true}"
            -> Json(TRUE, TRUE, "turn", TRUE, NoVal)
      [] data = "{\"type\":\"transcript\",\"end_of_turn\":true,\"transcript\":\"hi\"}"
            -> Json(TRUE, TRUE, "transcript", TRUE, "hi")
      [] data = "{\"type\":\"turn\",\"transcript\":\"hi\"}"
            -> Json(TRUE, TRUE, "turn", FALSE, "hi")
      [] OTHER -> Json(FALSE, FALSE, NoVal, FALSE, NoVal)

\* IsTurn with the bug of a handler that does not look at end_of_turn
IsTurnIgnoresFlag(payload) ==
    payload.ok /\ payload.object /\ payload.type = "turn"

\* the condition of the if of onmessage
IsTurn(payload) ==
    payload.ok /\ payload.object /\ payload.type = "turn" /\ payload.end_of_turn

\* SocketMessage with the bug of a channel that drives the recorder: a turn
\* message stops the capture
SocketMessageStops(ws, data) ==
    /\ ws \in 1..Len(sockets)
    /\ sockets[ws].state = "open"
    /\ LET payload == JSONParse(data)
       IN  IF IsTurn(payload)
           THEN /\ Len(turnLog) < MaxRows
                /\ turnBoxHidden' = FALSE
                /\ turnLog' = Append(turnLog, Or(payload.transcript, "(no transcript)"))
                /\ stopRecording
           ELSE UNCHANGED <<turnLog, turnBoxHidden, recorders, isRecording,
                            statusText, toast>>
    /\ UNCHANGED <<page, mediaRecorder, chunks, gumVars, netVars, audioVars, lastBot,
                   sessVars, formVars, loaded, sockets, turnSocket>>

\* turnSocket.onmessage of socket ws for a message with the text data
SocketMessage(ws, data) ==
    /\ ws \in 1..Len(sockets)
    /\ sockets[ws].state = "open"
    /\ LET payload == JSONParse(data)
       IN  IF IsTurn(payload)
           THEN /\ Len(turnLog) < MaxRows
                /\ turnBoxHidden' = FALSE
                /\ turnLog' = Append(turnLog, Or(payload.transcript, "(no transcript)"))
           ELSE UNCHANGED <<turnLog, turnBoxHidden>>
    /\ UNCHANGED <<loopVars, sessVars, formVars, loaded, sockets, turnSocket>>

\* turnSocket.onerror: a warning is logged; the close event follows
SocketError(ws) ==
    /\ ws \in 1..Len(sockets)
    /\ sockets[ws].state \in {"connecting", "open"}
    /\ sockets' = [sockets EXCEPT ![ws].state = "failed"]
    /\ UNCHANGED <<loopVars, sessVars, formVars, loaded, turnSocket, turnLog, turnBoxHidden>>

\* SocketClose with the bug of the retry of line 188 left in: onclose calls
\* initTurnSocket again
SocketCloseReconnects(ws) ==
    /\ ws \in 1..Len(sockets)
    /\ sockets[ws].state \in {"open", "failed"}
    /\ sockets' = initTurnSocket([sockets EXCEPT ![ws].state = "closed"])
    /\ turnSocket' = Len(sockets')
    /\ UNCHANGED <<loopVars, sessVars, formVars, loaded, turnLog, turnBoxHidden>>

\* turnSocket.onclose: a log line; the retry of line 188 is commented out
SocketClose(ws) ==
    /\ ws \in 1..Len(sockets)
    /\ sockets[ws].state \in {"open", "failed"}
    /\ sockets' = [sockets EXCEPT ![ws].state = "closed"]
    /\ UNCHANGED <<loopVars, sessVars, formVars, loaded, turnSocket, turnLog, turnBoxHidden>>

\* ------------------------------------------------------------- Next, Spec
Next ==
    \/ Click
    \/ GetUserMediaResolve
    \/ GetUserMediaReject
    \/ \E r \in 1..Len(recorders) : RecorderStart(r)
    \/ \E r \in 1..Len(recorders), hasData \in BOOLEAN : RecorderStop(r, hasData)
    \/ \E q \in inflight, resp \in Responses : FetchSettle(q, resp)
    \/ \E ok \in BOOLEAN : PlaySettle(ok)
    \/ AudioEnded

Spec == Init /\ [][Next]_vars

\* the session handling alone, from a tab that has not run the script yet
NextSession ==
    \/ ensureSessionId
    \/ Tick

SpecSession == InitSession /\ [][NextSession]_vars

\* The posting of a capture under every configuration: the tab has stopped
\* its first capture (click, grant, click) and the stop event of the recorder
\* is about to be dispatched; the page may lack either checkbox.
InitForm ==
    /\ page \in Pages
    /\ mediaRecorder = 1
    /\ recorders = <<[state |-> "inactive", events |-> <<"stop">>, stream |-> "live"]>>
    /\ chunks = <<>>
    /\ pendingGUM = 0 /\ gestures = 1 /\ resumes = 0
    /\ inflight = {} /\ sent = 0
    /\ audioSrc = NoVal /\ playing = FALSE /\ onended = FALSE /\ playPending = <<>>
    /\ lastBot = NoVal
    /\ IF page = "script"
       THEN isRecording = FALSE /\ statusText = "Thinking..."
                               /\ toast = "Recording stopped"
       ELSE isRecording = TRUE /\ statusText = "Listening... tap to stop"
                              /\ toast = NoVal
    /\ search = "?session_id=" \o LoadedKey
    /\ now = 0
    /\ keys = <<LoadedKey>>
    /\ sessionIdText = LoadedKey
    /\ conciseToggle \in {"absent", "off"}
    /\ webToggle \in {"absent", "off"}
    /\ localStorage = [p \in Providers |-> NoVal]
    /\ ChanInit

NextForm ==
    \/ ToggleConcise
    \/ ToggleWeb
    \/ \E a \in Typed("assemblyai"), g \in Typed("gemini"),
          m \in Typed("murf"), t \in Typed("tavily") :
          SaveConfig([assemblyai |-> a, gemini |-> g, murf |-> m, tavily |-> t])
    \/ \E r \in 1..Len(recorders), hasData \in BOOLEAN : RecorderStop(r, hasData)

SpecForm == InitForm /\ [][NextForm]_vars

\* The turn channel of script.js (part_000 has none), from the tab before
\* the script runs to the closing of its socket.
InitChannel ==
    /\ InitSession
    /\ page = "script"

NextChannel ==
    \/ ensureSessionId
    \/ Tick
    \/ DOMContentLoaded
    \/ \E ws \in 1..Len(sockets) : SocketOpen(ws)
    \/ \E ws \in 1..Len(sockets), data \in Frames : SocketMessage(ws, data)
    \/ \E ws \in 1..Len(sockets) : SocketError(ws)
    \/ \E ws \in 1..Len(sockets) : SocketClose(ws)

SpecChannel == InitChannel /\ [][NextChannel]_vars

\* The turn loop of script.js with the messages of its channel arriving in
\* between (part_000 has no channel): the socket is open.
TurnFrames ==
    {"hello",
     "{\"type\":\"turn\",\"end_of_turn\":false,\"transcript\":\"hi\"}",
     "{\"type\":\"turn\",\"end_of_turn\":true,\"transcript\":\"hi\"}"}

InitTurnChannel ==
    /\ LoopInit
    /\ page = "script"
    /\ search = "?session_id=" \o LoadedKey
    /\ now = 0
    /\ keys = <<LoadedKey>>
    /\ sessionIdText = LoadedKey
    /\ FormInit
    /\ loaded = TRUE
    /\ sockets = <<[NewSocket EXCEPT !.state = "open"]>>
    /\ turnSocket = 1
    /\ turnLog = <<>>
    /\ turnBoxHidden = TRUE

NextTurnChannel ==
    \/ Click /\ gestures' + resumes' <= MaxStarts
    \/ GetUserMediaResolve
    \/ GetUserMediaReject
    \/ \E r \in 1..Len(recorders), hasData \in BOOLEAN : RecorderStop(r, hasData)
    \/ \E q \in inflight, resp \in Responses : FetchSettle(q, resp)
    \/ \E ok \in BOOLEAN : PlaySettle(ok)
    \/ AudioEnded /\ gestures' + resumes' <= MaxStarts
    \/ \E ws \in 1..Len(sockets), data \in TurnFrames : SocketMessage(ws, data)

SpecTurnChannel == InitTurnChannel /\ [][NextTurnChannel]_vars

\* The turn loop followed for MaxStarts starts, by click or by auto-resume.
NextTurns ==
    \/ Click /\ gestures' + resumes' <= MaxStarts
    \/ GetUserMediaResolve
    \/ GetUserMediaReject
    \/ \E r \in 1..Len(recorders) : RecorderStart(r)
    \/ \E r \in 1..Len(recorders), hasData \in BOOLEAN : RecorderStop(r, hasData)
    \/ \E q \in inflight, resp \in Responses : FetchSettle(q, resp)
    \/ \E ok \in BOOLEAN : PlaySettle(ok)
    \/ AudioEnded /\ gestures' + resumes' <= MaxStarts

SpecTurns == Init /\ [][NextTurns]_vars

\* The turn loop with stopRecording() also called directly, in any state.
NextStopCall ==
    \/ Click /\ gestures' + resumes' <= MaxStarts
    \/ GetUserMediaResolve
    \/ GetUserMediaReject
    \/ \E r \in 1..Len(recorders) : RecorderStart(r)
    \/ \E r \in 1..Len(recorders), hasData \in BOOLEAN : RecorderStop(r, hasData)
    \/ \E q \in inflight, resp \in Responses : FetchSettle(q, resp)
    \/ \E ok \in BOOLEAN : PlaySettle(ok)
    \/ AudioEnded /\ gestures' + resumes' <= MaxStarts
    \/ StopCall

SpecStopCall == Init /\ [][NextStopCall]_vars

\* The turn loop of script.js with its channel delivering messages, failing
\* and closing in between.
NextTurnChannelEnd ==
    \/ NextTurnChannel
    \/ \E ws \in 1..Len(sockets) : SocketError(ws)
    \/ \E ws \in 1..Len(sockets) : SocketClose(ws)

SpecTurnChannelEnd == InitTurnChannel /\ [][NextTurnChannelEnd]_vars

\* The same program with the settling of a fetch and the end of a playback
\* taken to happen eventually.
FairSpec ==
    /\ Spec
    /\ WF_vars(\E q \in inflight, resp \in Responses : FetchSettle(q, resp))
    /\ WF_vars(\E ok \in BOOLEAN : PlaySettle(ok))

\* ------------------------------------------------- coordinator states
\* The states of the turn loop, read off the program's state.
LiveCaptures == {r \in 1..Len(recorders) : recorders[r].state = "recording"}
Listening  == isRecording \/ LiveCaptures # {}
Arming     == pendingGUM > 0
Exchanging == inflight # {}
Speaking   == playing \/ playPending # <<>>
Idle       == ~Listening /\ ~Arming /\ ~Exchanging

\* the turn results of the specification: a turn fails on a transport
\* error, a non-OK status or a body that does not parse
Failure(resp) == resp.net # "ok" \/ ~resp.parsed
Success(resp) == ~Failure(resp)

\* what the page shows of a failure: the assistant bubble, the toast and
\* the status line
Reported == {lastBot, toast, statusText}
Mentions(text) == \E shown \in Reported :
    \E i \in 1..Len(shown) : \E j \in i..Len(shown) : SubSeq(shown, i, j) = text

\* the requests a step settles
Settled == inflight \ inflight'

\* =================================================================== C1
\* C1: at most one capture session (a started MediaRecorder on an acquired
\* stream that has not been stopped) is live at any time.
C1_AtMostOneCapture == Cardinality(LiveCaptures) <= 1

\* =================================================================== C2
\* C2: at most one turn request is in flight at any time.
C2_AtMostOneInFlight == Cardinality(inflight) <= 1

\* =================================================================== C3
\* C3: a click while not recording that arrives while an exchange is pending
\* or the reply is playing is ignored: no device is requested, no recorder
\* is started, and the recording state is unchanged.
C3_StartIgnoredWhileBusy ==
    [][(Click /\ ~isRecording /\ (Exchanging \/ Speaking))
         => (pendingGUM' = pendingGUM /\ UNCHANGED recVars)]_vars

\* =================================================================== C4
\* C4: after a failed turn the end of the fallback audio's playback never
\* calls startRecording.  In script.js the last bubble is the trouble
\* message exactly when the last settled turn failed, and a playback that
\* is running then is that turn's fallback.
FailurePlayback == page = "script" /\ lastBot = TroubleMsg /\ playing
C4_NoResumeAfterFailure ==
    [][(FailurePlayback /\ ~playing') => pendingGUM' <= pendingGUM]_vars

\* =================================================================== C5
\* C5: when the result of a turn request has been processed the coordinator
\* is Speaking (success) or Idle (failure), and holds no other request.
C5_ResultLeavesSpeakingOrIdle ==
    [][\A q \in Settled, resp \in Responses :
         FetchSettle(q, resp) =>
            /\ ~Listening' /\ ~Arming' /\ ~Exchanging'
            /\ Success(resp) => Speaking']_vars

\* =================================================================== C6
\* C6: every failed turn selects /static/fallback.mp3 as the playback source
\* and attempts to play it.
C6_FailurePlaysFallback ==
    [][\A q \in Settled, resp \in Responses :
         (FetchSettle(q, resp) /\ Failure(resp))
            => (audioSrc' = Fallback /\ playPending' # <<>>)]_vars

\* =================================================================== C7
\* C7: a successful turn plays the audio reference the server returned, and
\* when that playback ends startRecording is called without a click; when
\* the device then grants access a recorder is capturing.
\* the ended event of a playing reply (a new source would leave a play() pending)
ReplyBodies == {resp \in Responses : Success(resp) /\ resp.audio_url # NoVal}
ReplyEnds == playing /\ audioSrc = ReplyUrl /\ ~playing' /\ playPending' = <<>>
C7_SuccessPlaysReplyAndResumes ==
    [][/\ \A q \in Settled, resp \in ReplyBodies :
            FetchSettle(q, resp) => (audioSrc' = resp.audio_url /\ playPending' # <<>>)
       /\ ReplyEnds => (pendingGUM' = pendingGUM + 1 /\ gestures' = gestures)
       /\ (pendingGUM' < pendingGUM /\ Len(recorders') > Len(recorders))
            => (mediaRecorder' \in LiveCaptures')]_vars

\* a second capture is live after one click only: the reply of the first
\* turn ended and listening resumed by itself
C7_Witness ==
    /\ gestures = 1 /\ resumes = 1 /\ audioSrc = ReplyUrl
    /\ Len(recorders) = 2 /\ mediaRecorder = 2 /\ 2 \in LiveCaptures

\* =================================================================== C8
\* C8: what the client reports of a failed turn carries the stage and the
\* message of that failure.
C8_FailureReportCarriesStageAndMessage ==
    [][\A q \in Settled, resp \in Responses :
         (FetchSettle(q, resp) /\ resp.net = "status" /\ resp.parsed
            /\ resp.stage # NoVal /\ resp.error # NoVal)
            => (Mentions(resp.stage)' /\ Mentions(resp.error)')]_vars

\* =================================================================== C9
\* C9: a rejected microphone request leaves the recording flag, the recorder
\* handle, the recorders and the requests as they were; as long as no
\* request was granted the flag is false, there is no recorder and no turn
\* request has been sent.
MicRejected == pendingGUM' = pendingGUM - 1 /\ Len(recorders') = Len(recorders)
C9_RejectedStartStaysIdle ==
    /\ [](Len(recorders) = 0 =>
            (~isRecording /\ mediaRecorder = 0 /\ sent = 0 /\ inflight = {}))
    /\ [][MicRejected => UNCHANGED <<recVars, netVars>>]_vars

\* every start so far was rejected
C9_Witness ==
    /\ gestures = MaxGestures /\ pendingGUM = 0 /\ Len(recorders) = 0
    /\ ~isRecording /\ sent = 0

\* ================================================================== C10
\* C10: every call of ensureSessionId in a tab returns the key the first
\* call returned, whether that call read it from the query or made it up
\* and wrote it back.
C10_SessionKeyIdempotent ==
    \A i \in 1..Len(keys) : keys[i] = keys[1]

\* the first call made the key up from the clock, and a later call was made
\* at a later time
C10_Witness ==
    /\ Len(keys) >= 2
    /\ \E t \in 0..MaxClock : t < now /\ keys[1] = ToString(t) /\ keys[2] = ToString(t)

\* ================================================================== C11
\* C11: the form fields of a turn request are determined by the
\* configuration at the time it is posted: next to the audio file, concise
\* and web_search are each present once, "1" when the toggle is on and "0"
\* otherwise, and the credential field of a provider is present, with the
\* stored key, exactly when a non-empty key is stored for it.
Posted == inflight' \ inflight
Values(form, name) == {i \in 1..Len(form) : form[i].name = name}
FieldIs(form, name, value) ==
    /\ Cardinality(Values(form, name)) = 1
    /\ \A i \in Values(form, name) : form[i].value = value
C11_FormFollowsConfiguration ==
    [][\A q \in Posted :
         /\ Cardinality(Values(q.form, "file")) = 1
         /\ FieldIs(q.form, "concise", IF conciseToggle = "on" THEN "1" ELSE "0")
         /\ FieldIs(q.form, "web_search", IF webToggle = "on" THEN "1" ELSE "0")
         /\ \A p \in Providers :
               IF localStorage[p] \in {NoVal, ""}
               THEN Values(q.form, p \o "_api_key") = {}
               ELSE FieldIs(q.form, p \o "_api_key", localStorage[p])
         /\ Len(q.form) = 3 + Cardinality({p \in Providers :
                                             localStorage[p] \notin {NoVal, ""}})]_vars

\* ================================================================== C12
\* C12: a message of the turn channel, whatever its payload and whenever in
\* a turn it arrives, leaves the state of the turn loop as it was: the
\* recording flag, the recorder handle, the recorders, the buffered chunks,
\* the requests in flight and sent, the pending microphone requests and the
\* audio element.
OpenSockets == {ws \in 1..Len(sockets) : sockets[ws].state = "open"}
ChannelStep ==
    \/ turnLog' # turnLog
    \/ turnBoxHidden' # turnBoxHidden
    \/ \E ws \in OpenSockets, data \in TurnFrames : SocketMessage(ws, data)
C12_ChannelMessageLeavesTurnLoop ==
    [][UNCHANGED <<recVars, netVars, audioVars, pendingGUM>> \/ ~ChannelStep]_vars

\* rows were logged while a capture was live and while a request was in
\* flight
C12_Witness ==
    /\ Len(turnLog) = MaxRows
    /\ inflight # {}
    /\ LiveCaptures # {}

\* ================================================================== C13
\* C13: the turn channel is opened exactly once per session key, at page
\* load: no socket exists before DOMContentLoaded, and from then on exactly
\* one WebSocket has been created, to /ws/transcribe with the session key
\* of the tab, whatever happens to it afterwards.
ChannelUrl == "ws://host/ws/transcribe?session_id=" \o EncodeURIComponent(keys[1])
C13_ChannelOpenedOnce ==
    /\ ~loaded => (sockets = <<>> /\ turnSocket = 0)
    /\ loaded => (Len(sockets) = 1 /\ turnSocket = 1 /\ sockets[1].url = ChannelUrl)

\* the socket of a session key made up at load has closed and is still the
\* only one, after later calls of ensureSessionId
C13_Witness ==
    /\ loaded /\ Len(sockets) = 1 /\ sockets[1].state = "closed"
    /\ Len(keys) >= 2 /\ keys[1] = ToString(0)

\* ================================================================== C14
\* C14: every start/stop cycle acquires the microphone once and releases it
\* once: the stream of a recorder that has been stopped is no longer live.
C14_StreamReleasedWhenStopped ==
    \A r \in 1..Len(recorders) :
        recorders[r].state = "inactive" => recorders[r].stream # "live"

\* ================================================================== C15
\* C15: stopRecording() called while no capture is in progress (the
\* coordinator is Idle, Exchanging or Speaking: the flag is false, no
\* recorder is capturing and no microphone request is pending) stops no
\* recorder, sends no request and changes neither the flag, the status line
\* nor the toast.
C15_StopWithoutCaptureIsNoOp ==
    [][(~Listening /\ ~Arming /\ StopCall)
         => UNCHANGED <<recorders, isRecording, statusText, toast, netVars>>]_vars

\* the states the call is a no-op in although there is a recorder: a request
\* is in flight, or its reply is playing
C15_Witness ==
    /\ ~Listening /\ ~Arming /\ mediaRecorder # 0
    /\ Exchanging /\ Speaking

\* ================================================================== C16
\* C16: every stopped capture leads to exactly one turn request and a
\* request that fails is not sent again: the number of requests sent equals
\* the number of recorder stop events handled, and the settling of a
\* request, whatever its result, sends none.
StopsHandled ==
    {r \in 1..Len(recorders) :
        /\ recorders[r].state = "inactive"
        /\ \A i \in 1..Len(recorders[r].events) : recorders[r].events[i] # "stop"}
C16_OneRequestPerStop ==
    /\ [](sent = Cardinality(StopsHandled))
    /\ [][Settled # {} => (sent' = sent /\ inflight' \subseteq inflight)]_vars

\* two captures were stopped and posted, the second request failed, and
\* nothing is in flight
C16_Witness ==
    /\ sent = 2 /\ Cardinality(StopsHandled) = 2
    /\ inflight = {} /\ lastBot = TroubleMsg

\* ================================================================== C17
\* C17: within a turn the steps come in order.  The request that is posted
\* carries the blob built from the buffered chunks, the fragment of the
\* last dataavailable event included; the assistant bubble, the source of
\* aiAudio and a new play() come only with the step that receives the
\* response of a request, so nothing of a reply is shown or played as long
\* as no response has arrived.
ReplyShown ==
    \/ lastBot' # lastBot
    \/ audioSrc' # audioSrc
    \/ (playPending' # <<>> /\ playPending' # playPending)
C17_TurnStepsInOrder ==
    /\ []((lastBot # NoVal \/ audioSrc # NoVal \/ playing \/ playPending # <<>>)
            => sent > Cardinality(inflight))
    /\ [][/\ \A q \in Posted : q.blob = chunks'
          /\ ReplyShown => Settled # {}]_vars

\* the reply of a request that carried a fragment is shown and playing
C17_Witness ==
    /\ sent = 1 /\ inflight = {} /\ chunks # <<>>
    /\ lastBot = ReplyText /\ audioSrc = ReplyUrl /\ playing

\* ================================================================== C18
\* C18: a message of the channel produces an entry of the turn log exactly
\* when its payload parses as JSON, has type "turn" and has end_of_turn
\* true; the entry is the transcript, or "(no transcript)" when there is
\* none.  Every other message changes neither the log nor the panel.
EndOfTurnFrames ==
    {"{\"type\":\"turn\",\"end_of_turn\":true,\"transcript\":\"hi\"}",
     "{\"type\":\"turn\",\"end_of_turn\":true}"}
EntryOf(data) ==
    IF data = "{\"type\":\"turn\",\"end_of_turn\":true,\"transcript\":\"hi\"}"
    THEN "hi" ELSE "(no transcript)"
C18_EntryIffEndOfTurn ==
    [][/\ \A ws \in 1..Len(sockets), data \in Frames :
            SocketMessage(ws, data) =>
                IF data \in EndOfTurnFrames
                THEN turnLog' = Append(turnLog, EntryOf(data)) /\ ~turnBoxHidden'
                ELSE UNCHANGED <<turnLog, turnBoxHidden>>
       /\ (turnLog' # turnLog \/ turnBoxHidden' # turnBoxHidden) =>
            \E ws \in 1..Len(sockets), data \in EndOfTurnFrames :
                SocketMessage(ws, data)]_vars

\* both kinds of entry are in the log and the panel is shown
C18_Witness ==
    /\ turnLog = <<"hi", "(no transcript)">>
    /\ ~turnBoxHidden

\* ================================================================== C19
\* C19: a successful response that reports a fallback of the server (the
\* fallback flag is set, or there is no audio reference and the local
\* fallback asset is played in its place) is handled as a success: the
\* reply text is shown, the audio is played, no error is reported, and the
\* handler that resumes listening is installed, so that the end of the
\* playback calls startRecording.
FallbackBodies ==
    {resp \in Responses : Success(resp) /\ (resp.fallback \/ resp.audio_url = NoVal)}
C19_FallbackSuccessIsSuccess ==
    [][/\ \A q \in Settled, resp \in FallbackBodies :
            FetchSettle(q, resp) =>
                /\ lastBot' = Or(resp.llm_text, NoResponse)
                /\ audioSrc' = Or(resp.audio_url, Fallback)
                /\ playPending' # <<>> /\ playPending'[1].arm
                /\ toast' = toast
       /\ (playPending # <<>> /\ playPending[1].arm /\ playPending' # playPending)
            => onended'
       /\ (playing /\ onended /\ ~playing' /\ playPending' = <<>>)
            => pendingGUM' = pendingGUM + 1]_vars

\* a reply without audio was shown, the local fallback asset was played in
\* its place, and at its end listening resumed: a second capture is live
C19_Witness ==
    /\ lastBot = ReplyText /\ audioSrc = Fallback
    /\ gestures = 1 /\ resumes = 1 /\ mediaRecorder = 2 /\ 2 \in LiveCaptures

\* ================================================================== C20
\* C20: for a response with a non-OK status the failure message the client
\* reports is the error field of the body, else its detail field, and a
\* text made from the status only when the body has neither or does not
\* parse; the stage field is not used as the message.
StatusBodies == {resp \in Responses : resp.net = "status"}
FailureMessage(resp) ==
    IF resp.parsed THEN Or(Or(resp.error, resp.detail), StatusLine) ELSE StatusLine
C20_MessageFromErrorOrDetail ==
    [][\A q \in Settled, resp \in StatusBodies :
         FetchSettle(q, resp) => Mentions(FailureMessage(resp))']_vars

\* ================================================================== C21
\* C21: once the turn channel has closed, after an error or without one,
\* no new connection is opened for it: no step after the load creates a
\* socket or changes turnSocket, a closed socket stays closed, and while
\* every socket is closed the turn log is quiet.  A step of the channel
\* (an error, a close) changes nothing of the turn loop.
AllClosed == \A ws \in 1..Len(sockets) : sockets[ws].state = "closed"
C21_NoReconnectAfterClose ==
    [][/\ loaded => (Len(sockets') = Len(sockets) /\ turnSocket' = turnSocket)
       /\ \A ws \in 1..Len(sockets) :
             sockets[ws].state = "closed" => sockets'[ws].state = "closed"
       /\ AllClosed => UNCHANGED <<turnLog, turnBoxHidden>>
       /\ sockets' # sockets =>
             UNCHANGED <<recVars, gumVars, netVars, audioVars, uiVars>>]_vars

\* the channel failed and closed during the first turn, and the loop went
\* on: the reply of that turn ended and a second capture is live
C21_Witness ==
    /\ Len(sockets) = 1 /\ sockets[1].state = "closed" /\ turnSocket = 1
    /\ sent = 1 /\ resumes = 1 /\ LiveCaptures # {}

\* ================================================================== C22
\* C22: the blob posted for a turn consists of exactly the fragments of the
\* recorder whose stop event posts it.  A recorder started without a
\* timeslice delivers its data in one dataavailable event, in the task of
\* its stop event: the blob is that one fragment when the step buffered
\* one, and empty otherwise.
Stopper == {r \in 1..Len(recorders) : recorders'[r].events # recorders[r].events}
C22_BlobIsOwnFragments ==
    [][\A q \in Posted, r \in Stopper :
         q.blob = IF Len(chunks') > Len(chunks) THEN <<r>> ELSE <<>>]_vars

TypeOK ==
    /\ page \in Pages
    /\ isRecording \in BOOLEAN
    /\ mediaRecorder \in 0..Len(recorders)
    /\ gestures \in 0..MaxGestures
    /\ resumes \in 0..MaxResumes
    /\ pendingGUM \in 0..(gestures + resumes)
    /\ Len(recorders) + pendingGUM <= gestures + resumes
    /\ sent <= Len(recorders)
    /\ Len(playPending) <= 1
    /\ conciseToggle \in {"absent", "off", "on"}
    /\ webToggle \in {"absent", "off", "on"}
    /\ DOMAIN localStorage = Providers
    /\ loaded \in BOOLEAN
    /\ turnSocket \in 0..Len(sockets)
    /\ Len(sockets) <= 1
    /\ Len(turnLog) <= MaxRows
    /\ turnBoxHidden = (turnLog = <<>>)
====
